---------------------------- MODULE Spec2Model ----------------------------
(***************************************************************************)
(* Model of modules/renter/upload.go: Renter.Upload, file.upload and       *)
(* file.uploadWorker.  One Renter.Upload call is followed from its setup   *)
(* checks through the worker goroutines and the chunk loop of file.upload  *)
(* to its return.                                                          *)
(***************************************************************************)
EXTENDS Integers, Naturals, Sequences, FiniteSets, TLC

(* ------------------------------ bounds -------------------------------- *)

\* longest source stream, in bytes
MaxLen == 4
\* up.PieceSize of the modelled upload, in bytes
PieceSize == 2
\* data pieces of up.ErasureCode
DataPieces == 1
\* parity pieces of up.ErasureCode
ParityPieces == 1
\* hosts known to the host database
MaxHosts == 3

NoFail == 0 - 1
NoPiece == <<>>

\* erasureCode.NumPieces()
NumPieces == DataPieces + ParityPieces
\* erasureCode.MinPieces()
MinPieces == DataPieces
\* number of hosts asked of hostDB.RandomHosts
SampleSize == (NumPieces * 3) \div 2
\* hostDB.RandomHosts(n): at most n hosts, and no more than the database knows
RandomHosts(n) == 1 .. (IF n < MaxHosts THEN n ELSE MaxHosts)
Candidates == RandomHosts(SampleSize)
\* the nickname of the modelled upload, up.Nickname
Nickname == "nick"
\* the file object this call creates, and one that was in r.files before
ThisFile == "f"
OtherFile == "other"
\* the file object a second Upload call with the same nickname creates
OtherUpload == "g"

Min(a, b) == IF a < b THEN a ELSE b

VARIABLES
    streamLen,      \* length of the file behind handle
    readFailAt,     \* offset at which the reader fails with an I/O error, or NoFail
    encFailAt,      \* chunk index at which erasureCode.Encode fails, or NoFail
    files,          \* r.files: nickname -> file object
    saved,          \* what r.save() last persisted of r.files
    siaSaved,       \* TRUE once r.saveFile(f) has written the .sia file
    everInserted,   \* history: r.files[up.Nickname] = f has been executed
    upc,            \* position of Renter.Upload
    uploadErr,      \* return value of Renter.Upload
    hosts,          \* the uploaders that could be constructed
    dpc,            \* position of file.upload
    ret,            \* return value of file.upload
    i,              \* chunk index of the loop of file.upload
    j,              \* index of the next piece to send
    pos,            \* offset of the reader r
    chunk,          \* the buffer ReadFull filled
    reads,          \* history: offset, byte count and buffer of every chunk read
    pieces,         \* result of erasureCode.Encode(chunk)
    closed,         \* reqChan is closed
    collected,      \* iterations done of the "for range hosts" loop
    wpc,            \* position of each uploadWorker
    req,            \* the uploadPiece each worker holds
    stored,         \* per host: metadata of the pieces addPiece accepted
    failedOn,       \* per host: the pieces whose addPiece returned an error
    resp,           \* per worker: value of host.fileContract() it sends
    fcCalls,        \* history: calls of host.fileContract()
    bytesUploaded,  \* f.bytesUploaded
    chunksUploaded, \* f.chunksUploaded
    contracts,      \* f.contracts: IP -> fileContract
    opc             \* position of a second Renter.Upload call with the same nickname

inputVars == <<streamLen, readFailAt, encFailAt>>
renterVars == <<files, saved, siaSaved, everInserted, upc, uploadErr, hosts>>
dispVars == <<dpc, ret, i, j, pos, chunk, reads, pieces, closed, collected>>
workVars == <<wpc, req, stored, failedOn, resp, fcCalls>>
fileVars == <<bytesUploaded, chunksUploaded, contracts>>
raceVars == <<opc>>
vars == <<inputVars, renterVars, dispVars, workVars, fileVars, raceVars>>

(* ----------------------- the stream and the coder --------------------- *)

\* the bytes of the file: byte k has value k, so a byte tells its offset
stream == [k \in 1 .. streamLen |-> k % 256]

\* f.chunkSize()
chunkSize == PieceSize * MinPieces

\* io.ReadFull(r, buf) with len(buf) = size, reader at offset p
ReadFull(p, size) ==
    LET avail == IF readFailAt = NoFail THEN streamLen ELSE readFailAt
        n == Min(size, avail - p)
    IN  [n |-> n,
         err |-> IF n = size THEN "nil"
                 ELSE IF readFailAt # NoFail THEN "EIO"
                 ELSE IF n = 0 THEN "EOF"
                 ELSE "ErrUnexpectedEOF",
         buf |-> [k \in 1 .. size |-> IF k <= n THEN stream[p + k] ELSE 0]]

\* erasureCode.Encode(chunk): the data pieces are the PieceSize-byte slices of
\* the chunk, each parity piece a checksum over them
Encode(c) ==
    LET slice(d) == [k \in 1 .. PieceSize |-> c[d * PieceSize + k]]
        RECURSIVE sum(_, _)
        sum(k, d) == IF d = 0 THEN 0 ELSE (sum(k, d - 1) + c[(d - 1) * PieceSize + k])
        parity(q) == [k \in 1 .. PieceSize |-> (sum(k, DataPieces) + q) % 256]
    IN  [q \in 0 .. NumPieces - 1 |->
            IF q < DataPieces THEN slice(q) ELSE parity(q - DataPieces)]

\* mutant: the chunk and piece index in each other's place
uploadPieceSwapped(data, ci, pi) ==
    [data |-> data, chunkIndex |-> pi, pieceIndex |-> ci]

\* uploadPiece{data, i, j}
uploadPiece(data, ci, pi) == [data |-> data, chunkIndex |-> ci, pieceIndex |-> pi]

\* the metadata a contract keeps of a piece
PieceId(p) == <<p.chunkIndex, p.pieceIndex>>

\* mutant: every worker is started with the same host, the last of the loop
sessionShared(w) == CHOOSE h \in hosts : \A g \in hosts : g <= h

\* the host of worker w: "go f.uploadWorker(h, reqChan, respChan)" starts one
\* worker per host of the list
session(w) == w

\* the network address of a host; hostDB.RandomHosts returns distinct hosts
IP(h) == h

\* host.addPiece(req) returning nil: the piece is recorded in the contract
addPiece(h, p) == [stored EXCEPT ![h] = @ \cup {PieceId(p)}]

\* host.fileContract()
fileContract(h) == [IP |-> IP(h), pieces |-> stored[h]]

\* mutant: contracts keyed by the order of arrival, not by contract.IP
StoreContractByIndex(c) ==
    [a \in DOMAIN contracts \cup {collected} |-> IF a = collected THEN c ELSE contracts[a]]

\* f.contracts[contract.IP] = contract
StoreContract(c) ==
    [a \in DOMAIN contracts \cup {c.IP} |-> IF a = c.IP THEN c ELSE contracts[a]]

\* mutant: the bytes are counted with the encryption overhead of the piece
CountBytesWithOverhead(p) == bytesUploaded + Len(p.data) + 1

\* atomic.AddUint64(&f.bytesUploaded, uint64(len(req.data)))
CountBytes(p) == bytesUploaded + Len(p.data)

(* ------------------------------- Init --------------------------------- *)

NumChunks(len) == (len + chunkSize - 1) \div chunkSize

\* the state of one Upload call at its start
InitUpload ==
    /\ streamLen \in 0 .. MaxLen
    /\ readFailAt \in {NoFail} \cup (0 .. streamLen)
    /\ encFailAt \in {NoFail} \cup (0 .. NumChunks(streamLen) - 1)
    /\ files \in {<<>>, [n \in {Nickname} |-> OtherFile]}
    /\ saved = files
    /\ siaSaved = FALSE
    /\ everInserted = FALSE
    /\ upc = "open"
    /\ uploadErr = "none"
    /\ hosts = {}
    /\ dpc = "idle"
    /\ ret = "none"
    /\ i = 0
    /\ j = 0
    /\ pos = 0
    /\ chunk = <<>>
    /\ reads = <<>>
    /\ pieces = <<>>
    /\ closed = FALSE
    /\ collected = 0
    /\ wpc = [h \in Candidates |-> "none"]
    /\ req = [h \in Candidates |-> NoPiece]
    /\ stored = [h \in Candidates |-> {}]
    /\ failedOn = [h \in Candidates |-> {}]
    /\ resp = [h \in Candidates |-> NoPiece]
    /\ fcCalls = [h \in Candidates |-> 0]
    /\ bytesUploaded = 0
    /\ chunksUploaded = 0
    /\ contracts = <<>>

\* one Upload call, no other call running
Init ==
    /\ InitUpload
    /\ opc = "off"

(* --------------------------- Renter.Upload ---------------------------- *)

\* extension check, os.Open
UploadOpen ==
    /\ upc = "open"
    /\ \E ok \in BOOLEAN :
        IF ok THEN /\ upc' = "nickname"
                   /\ UNCHANGED uploadErr
              ELSE /\ upc' = "done"
                   /\ uploadErr' = "open failed"
    /\ UNCHANGED <<raceVars, inputVars, files, saved, siaSaved, everInserted, hosts,
                   dispVars, workVars, fileVars>>

\* the nickname conflict check under r.mu.RLock
UploadCheckNickname ==
    /\ upc = "nickname"
    /\ IF Nickname \in DOMAIN files
          THEN /\ upc' = "done"
               /\ uploadErr' = "file with that nickname already exists"
          ELSE /\ upc' = "balance"
               /\ UNCHANGED uploadErr
    /\ UNCHANGED <<raceVars, inputVars, files, saved, siaSaved, everInserted, hosts,
                   dispVars, workVars, fileVars>>

\* size limit, default parameters, checkWalletBalance, newFile
UploadCheckBalance ==
    /\ upc = "balance"
    /\ \E ok \in BOOLEAN :
        IF ok THEN /\ upc' = "hosts"
                   /\ UNCHANGED uploadErr
              ELSE /\ upc' = "done"
                   /\ uploadErr' = "setup failed"
    /\ UNCHANGED <<raceVars, inputVars, files, saved, siaSaved, everInserted, hosts,
                   dispVars, workVars, fileVars>>

\* mutant: no MinPieces check
UploadSelectHostsUnchecked ==
    /\ upc = "hosts"
    /\ \E hs \in SUBSET Candidates :
        /\ hosts' = hs
        /\ upc' = "add"
        /\ UNCHANGED uploadErr
    /\ UNCHANGED <<raceVars, inputVars, files, saved, siaSaved, everInserted,
                   dispVars, workVars, fileVars>>

\* the loop over hostDB.RandomHosts and the MinPieces check
UploadSelectHosts ==
    /\ upc = "hosts"
    /\ \E hs \in SUBSET Candidates :
        /\ hosts' = hs
        /\ IF Cardinality(hs) < MinPieces
              THEN /\ upc' = "done"
                   /\ uploadErr' = "not enough hosts to support upload"
              ELSE /\ upc' = "add"
                   /\ UNCHANGED uploadErr
    /\ UNCHANGED <<raceVars, inputVars, files, saved, siaSaved, everInserted,
                   dispVars, workVars, fileVars>>

\* r.files[up.Nickname] = f; r.save() under r.mu.Lock
UploadAddFile ==
    /\ upc = "add"
    /\ files' = [n \in DOMAIN files \cup {Nickname} |->
                    IF n = Nickname THEN ThisFile ELSE files[n]]
    /\ saved' = files'
    /\ everInserted' = TRUE
    /\ upc' = "upload"
    /\ dpc' = "spawn"
    /\ UNCHANGED <<raceVars, inputVars, siaSaved, uploadErr, hosts, ret, i, j, pos, chunk,
                   reads, pieces, closed, collected, workVars, fileVars>>

\* mutant: the failed upload's file object stays in r.files
UploadFailedKeepsFile ==
    /\ upc = "upload"
    /\ dpc = "ret"
    /\ ret # "nil"
    /\ saved' = files
    /\ upc' = "done"
    /\ uploadErr' = "failed to upload any file pieces"
    /\ UNCHANGED <<raceVars, inputVars, files, siaSaved, everInserted, hosts, dispVars,
                   workVars, fileVars>>

\* f.upload returned an error: delete(r.files, up.Nickname); r.save()
UploadFailed ==
    /\ upc = "upload"
    /\ dpc = "ret"
    /\ ret # "nil"
    /\ files' = [n \in DOMAIN files \ {Nickname} |-> files[n]]
    /\ saved' = files'
    /\ upc' = "done"
    /\ uploadErr' = "failed to upload any file pieces"
    /\ UNCHANGED <<raceVars, inputVars, siaSaved, everInserted, hosts, dispVars, workVars,
                   fileVars>>

\* f.upload returned nil: r.saveFile(f)
UploadSaveFile ==
    /\ upc = "upload"
    /\ dpc = "ret"
    /\ ret = "nil"
    /\ \E ok \in BOOLEAN :
        IF ok THEN /\ siaSaved' = TRUE
                   /\ uploadErr' = "nil"
              ELSE /\ siaSaved' = FALSE
                   /\ uploadErr' = "saveFile failed"
    /\ upc' = "done"
    /\ UNCHANGED <<raceVars, inputVars, files, saved, everInserted, hosts, dispVars,
                   workVars, fileVars>>

(* ----------------------------- file.upload ---------------------------- *)

\* make the channels and spawn one worker per host
Spawn ==
    /\ dpc = "spawn"
    /\ wpc' = [h \in Candidates |-> IF h \in hosts THEN "recv" ELSE "none"]
    /\ dpc' = "read"
    /\ UNCHANGED <<raceVars, inputVars, renterVars, ret, i, j, pos, chunk, reads, pieces,
                   closed, collected, req, stored, failedOn, resp, fcCalls,
                   fileVars>>

\* mutant: a short final chunk ends the loop like a clean end of stream
ReadChunkStrict ==
    /\ dpc = "read"
    /\ LET r == ReadFull(pos, chunkSize)
       IN  IF r.err = "EOF" \/ r.err = "ErrUnexpectedEOF"
              THEN /\ dpc' = "close"
                   /\ UNCHANGED <<ret, pos, chunk, reads>>
           ELSE IF r.err # "nil"
              THEN /\ dpc' = "ret"
                   /\ ret' = r.err
                   /\ UNCHANGED <<pos, chunk, reads>>
           ELSE /\ dpc' = "encode"
                /\ chunk' = r.buf
                /\ pos' = pos + r.n
                /\ reads' = Append(reads, [off |-> pos, n |-> r.n, buf |-> r.buf])
                /\ UNCHANGED ret
    /\ UNCHANGED <<raceVars, inputVars, renterVars, i, j, pieces, closed, collected,
                   workVars, fileVars>>

\* read next chunk
ReadChunk ==
    /\ dpc = "read"
    /\ LET r == ReadFull(pos, chunkSize)
       IN  IF r.err = "EOF"
              THEN /\ dpc' = "close"
                   /\ UNCHANGED <<ret, pos, chunk, reads>>
           ELSE IF r.err # "nil" /\ r.err # "ErrUnexpectedEOF"
              THEN /\ dpc' = "ret"
                   /\ ret' = r.err
                   /\ UNCHANGED <<pos, chunk, reads>>
           ELSE /\ dpc' = "encode"
                /\ chunk' = r.buf
                /\ pos' = pos + r.n
                /\ reads' = Append(reads, [off |-> pos, n |-> r.n, buf |-> r.buf])
                /\ UNCHANGED ret
    /\ UNCHANGED <<raceVars, inputVars, renterVars, i, j, pieces, closed, collected,
                   workVars, fileVars>>

\* encode
EncodeChunk ==
    /\ dpc = "encode"
    /\ IF encFailAt = i
          THEN /\ dpc' = "ret"
               /\ ret' = "EncodingError"
               /\ UNCHANGED <<pieces, j>>
          ELSE /\ pieces' = Encode(chunk)
               /\ j' = 0
               /\ dpc' = "send"
               /\ UNCHANGED ret
    /\ UNCHANGED <<raceVars, inputVars, renterVars, i, pos, chunk, reads, closed,
                   collected, workVars, fileVars>>

\* mutant: a send that finds no idle worker does not wait and drops the piece
HandoffNonBlocking(h) ==
    /\ dpc = "send"
    /\ ~closed
    /\ \/ /\ wpc[h] = "recv"
          /\ req' = [req EXCEPT ![h] = uploadPiece(pieces[j], i, j)]
          /\ wpc' = [wpc EXCEPT ![h] = "add"]
       \/ /\ \A g \in hosts : wpc[g] # "recv"
          /\ UNCHANGED <<req, wpc>>
    /\ j' = j + 1
    /\ dpc' = IF j + 1 = NumPieces THEN "inc" ELSE "send"
    /\ UNCHANGED <<raceVars, inputVars, renterVars, ret, i, pos, chunk, reads, pieces,
                   closed, collected, stored, failedOn, resp, fcCalls, fileVars>>

\* mutant: the pieces of a chunk are sent last piece first
HandoffReversed(h) ==
    /\ dpc = "send"
    /\ wpc[h] = "recv"
    /\ ~closed
    /\ req' = [req EXCEPT ![h] =
                  uploadPiece(pieces[NumPieces - 1 - j], i, NumPieces - 1 - j)]
    /\ wpc' = [wpc EXCEPT ![h] = "add"]
    /\ j' = j + 1
    /\ dpc' = IF j + 1 = NumPieces THEN "inc" ELSE "send"
    /\ UNCHANGED <<raceVars, inputVars, renterVars, ret, i, pos, chunk, reads, pieces,
                   closed, collected, stored, failedOn, resp, fcCalls, fileVars>>

\* reqChan <- uploadPiece{data, i, j} meets "req := range reqChan" of worker h
Handoff(h) ==
    /\ dpc = "send"
    /\ wpc[h] = "recv"
    /\ ~closed
    /\ req' = [req EXCEPT ![h] = uploadPiece(pieces[j], i, j)]
    /\ wpc' = [wpc EXCEPT ![h] = "add"]
    /\ j' = j + 1
    /\ dpc' = IF j + 1 = NumPieces THEN "inc" ELSE "send"
    /\ UNCHANGED <<raceVars, inputVars, renterVars, ret, i, pos, chunk, reads, pieces,
                   closed, collected, stored, failedOn, resp, fcCalls, fileVars>>

\* atomic.AddUint64(&f.chunksUploaded, 1); i++
IncChunks ==
    /\ dpc = "inc"
    /\ chunksUploaded' = chunksUploaded + 1
    /\ i' = i + 1
    /\ dpc' = "read"
    /\ UNCHANGED <<raceVars, inputVars, renterVars, ret, j, pos, chunk, reads, pieces,
                   closed, collected, workVars, bytesUploaded, contracts>>

\* mutant: the channel is not closed before the contracts are collected
CloseSkipped ==
    /\ dpc = "close"
    /\ dpc' = "collect"
    /\ UNCHANGED <<raceVars, inputVars, renterVars, ret, i, j, pos, chunk, reads, pieces,
                   closed, collected, workVars, fileVars>>

\* close(reqChan)
Close ==
    /\ dpc = "close"
    /\ closed' = TRUE
    /\ dpc' = "collect"
    /\ UNCHANGED <<raceVars, inputVars, renterVars, ret, i, j, pos, chunk, reads, pieces,
                   collected, workVars, fileVars>>

\* mutant: contracts are received while pieces are still being sent
CollectEarly(h) ==
    /\ dpc \in {"send", "collect"}
    /\ collected < Cardinality(hosts)
    /\ wpc[h] = "send"
    /\ contracts' = StoreContract(resp[h])
    /\ wpc' = [wpc EXCEPT ![h] = "done"]
    /\ collected' = collected + 1
    /\ UNCHANGED <<raceVars, inputVars, renterVars, dpc, ret, i, j, pos, chunk, reads,
                   pieces, closed, req, stored, failedOn, resp, fcCalls,
                   bytesUploaded, chunksUploaded>>

\* contract := <-respChan meets "respChan <- ..." of worker h;
\* f.contracts[contract.IP] = contract
Collect(h) ==
    /\ dpc = "collect"
    /\ collected < Cardinality(hosts)
    /\ wpc[h] = "send"
    /\ contracts' = StoreContract(resp[h])
    /\ wpc' = [wpc EXCEPT ![h] = "done"]
    /\ collected' = collected + 1
    /\ UNCHANGED <<raceVars, inputVars, renterVars, dpc, ret, i, j, pos, chunk, reads,
                   pieces, closed, req, stored, failedOn, resp, fcCalls,
                   bytesUploaded, chunksUploaded>>

\* return nil
Return ==
    /\ dpc = "collect"
    /\ collected = Cardinality(hosts)
    /\ dpc' = "ret"
    /\ ret' = "nil"
    /\ UNCHANGED <<raceVars, inputVars, renterVars, i, j, pos, chunk, reads, pieces,
                   closed, collected, workVars, fileVars>>

(* -------------------------- file.uploadWorker ------------------------- *)

\* host.addPiece(req) returns nil
AddPieceOk(h) ==
    /\ wpc[h] = "add"
    /\ stored' = addPiece(session(h), req[h])
    /\ wpc' = [wpc EXCEPT ![h] = "count"]
    /\ UNCHANGED <<raceVars, inputVars, renterVars, dispVars, req, failedOn, resp, fcCalls,
                   fileVars>>

\* mutant: a failed addPiece is tried again with the same piece
AddPieceFailRetry(h) ==
    /\ wpc[h] = "add"
    /\ failedOn' = [failedOn EXCEPT ![session(h)] = @ \cup {PieceId(req[h])}]
    /\ UNCHANGED <<raceVars, inputVars, renterVars, dispVars, wpc, req, stored, resp,
                   fcCalls, fileVars>>

\* mutant: a failed addPiece does not end the loop
AddPieceFailContinue(h) ==
    /\ wpc[h] = "add"
    /\ failedOn' = [failedOn EXCEPT ![session(h)] = @ \cup {PieceId(req[h])}]
    /\ wpc' = [wpc EXCEPT ![h] = "recv"]
    /\ UNCHANGED <<raceVars, inputVars, renterVars, dispVars, req, stored, resp, fcCalls,
                   fileVars>>

\* host.addPiece(req) returns an error: break, then evaluate host.fileContract(),
\* the operand of the send on respChan
AddPieceFail(h) ==
    /\ wpc[h] = "add"
    /\ failedOn' = [failedOn EXCEPT ![session(h)] = @ \cup {PieceId(req[h])}]
    /\ resp' = [resp EXCEPT ![h] = fileContract(session(h))]
    /\ fcCalls' = [fcCalls EXCEPT ![session(h)] = @ + 1]
    /\ wpc' = [wpc EXCEPT ![h] = "send"]
    /\ UNCHANGED <<raceVars, inputVars, renterVars, dispVars, req, stored, fileVars>>

\* the addPiece call succeeded: count the bytes and take the next piece
AddBytes(h) ==
    /\ wpc[h] = "count"
    /\ bytesUploaded' = CountBytes(req[h])
    /\ wpc' = [wpc EXCEPT ![h] = "recv"]
    /\ UNCHANGED <<raceVars, inputVars, renterVars, dispVars, req, stored, failedOn, resp,
                   fcCalls, chunksUploaded, contracts>>

\* mutant: the worker leaves its loop when no piece is waiting, closed or not
RangeClosedNoWait(h) ==
    /\ wpc[h] = "recv"
    /\ resp' = [resp EXCEPT ![h] = fileContract(session(h))]
    /\ fcCalls' = [fcCalls EXCEPT ![session(h)] = @ + 1]
    /\ wpc' = [wpc EXCEPT ![h] = "send"]
    /\ UNCHANGED <<raceVars, inputVars, renterVars, dispVars, req, stored, failedOn,
                   fileVars>>

\* "range reqChan" sees the channel closed: leave the loop and evaluate
\* host.fileContract(), the operand of the send on respChan
RangeClosed(h) ==
    /\ wpc[h] = "recv"
    /\ closed
    /\ resp' = [resp EXCEPT ![h] = fileContract(session(h))]
    /\ fcCalls' = [fcCalls EXCEPT ![session(h)] = @ + 1]
    /\ wpc' = [wpc EXCEPT ![h] = "send"]
    /\ UNCHANGED <<raceVars, inputVars, renterVars, dispVars, req, stored, failedOn,
                   fileVars>>

(* ------------------------------- Next --------------------------------- *)

UploadNext ==
    \/ UploadOpen
    \/ UploadCheckNickname
    \/ UploadCheckBalance
    \/ UploadSelectHosts
    \/ UploadAddFile
    \/ UploadFailed
    \/ UploadSaveFile

Dispatcher ==
    \/ Spawn
    \/ ReadChunk
    \/ EncodeChunk
    \/ \E h \in Candidates : Handoff(h)
    \/ IncChunks
    \/ Close
    \/ \E h \in Candidates : Collect(h)
    \/ Return

Worker(h) ==
    \/ AddPieceOk(h)
    \/ AddPieceFail(h)
    \/ AddBytes(h)
    \/ RangeClosed(h)

Next ==
    \/ UploadNext
    \/ Dispatcher
    \/ \E h \in Candidates : Worker(h)

Spec == Init /\ [][Next]_vars

(* --------------- a second Renter.Upload, same nickname ---------------- *)

\* the other call's nickname conflict check under r.mu.RLock
OtherCheckNickname ==
    /\ opc = "start"
    /\ opc' = IF Nickname \in DOMAIN files THEN "rejected" ELSE "add"
    /\ UNCHANGED <<inputVars, renterVars, dispVars, workVars, fileVars>>

\* the other call's setup, then r.files[up.Nickname] = f; r.save() under r.mu.Lock
OtherAddFile ==
    /\ opc = "add"
    /\ \E ok \in BOOLEAN :
        IF ok THEN /\ files' = [n \in DOMAIN files \cup {Nickname} |->
                                   IF n = Nickname THEN OtherUpload ELSE files[n]]
                   /\ saved' = files'
                   /\ opc' = "upload"
              ELSE /\ opc' = "rejected"
                   /\ UNCHANGED <<files, saved>>
    /\ UNCHANGED <<inputVars, siaSaved, everInserted, upc, uploadErr, hosts,
                   dispVars, workVars, fileVars>>

\* the other call's f.upload returns: saveFile, or delete(r.files, up.Nickname)
OtherFinish ==
    /\ opc = "upload"
    /\ \E ok \in BOOLEAN :
        IF ok THEN /\ opc' = "committed"
                   /\ UNCHANGED <<files, saved>>
              ELSE /\ files' = [n \in DOMAIN files \ {Nickname} |-> files[n]]
                   /\ saved' = files'
                   /\ opc' = "failed"
    /\ UNCHANGED <<inputVars, siaSaved, everInserted, upc, uploadErr, hosts,
                   dispVars, workVars, fileVars>>

OtherNext ==
    \/ OtherCheckNickname
    \/ OtherAddFile
    \/ OtherFinish

\* two Upload calls with the same nickname at the same time
InitRace ==
    /\ InitUpload
    /\ opc = "start"

NextRace ==
    \/ Next
    \/ OtherNext

SpecRace == InitRace /\ [][NextRace]_vars

\* goroutines that can run are run, and every addPiece call returns
FairSpec ==
    /\ Spec
    /\ WF_vars(UploadNext)
    /\ WF_vars(Dispatcher)
    /\ \A h \in Candidates : WF_vars(Worker(h))

(* ------------------------- derived quantities ------------------------- *)

\* the stream is read and encoded without error
StreamOk == readFailAt = NoFail /\ encFailAt = NoFail

\* every piece of every chunk of the stream
AllPieces == (0 .. NumChunks(streamLen) - 1) \X (0 .. NumPieces - 1)

\* the data of piece q of chunk c, as the dispatcher computes it
PieceData(c, q) == Encode(ReadFull(c * chunkSize, chunkSize).buf)[q]

\* the hosts with an addPiece call that failed
FailedHosts == {h \in hosts : failedOn[h] # {}}

RECURSIVE SumLen(_)
SumLen(ps) ==
    IF ps = {} THEN 0
    ELSE LET p == CHOOSE x \in ps : TRUE
         IN  Len(PieceData(p[1], p[2])) + SumLen(ps \ {p})

RECURSIVE DeliveredBytes(_)
\* total length of the pieces the hosts of hs accepted
DeliveredBytes(hs) ==
    IF hs = {} THEN 0
    ELSE LET h == CHOOSE x \in hs : TRUE
         IN  SumLen(stored[h]) + DeliveredBytes(hs \ {h})

RECURSIVE CountStored(_)
CountStored(hs) ==
    IF hs = {} THEN 0
    ELSE LET h == CHOOSE x \in hs : TRUE
         IN  Cardinality(stored[h]) + CountStored(hs \ {h})

\* file.upload is running
Uploading == upc = "upload" /\ dpc # "ret"

(* ------------------------------- claims ------------------------------- *)

\* C1: with hosts of distinct identities whose addPiece calls all succeed and a
\* stream read and encoded without error, file.upload is never blocked, returns
\* nil, and f.contracts then has one entry per host, keyed by the host's
\* identity and holding the contract its fileContract() returned.
C1_AllHostsSucceed ==
    /\ (Uploading /\ FailedHosts = {}) => ENABLED Next
    /\ (dpc = "ret" /\ StreamOk /\ FailedHosts = {}) =>
          /\ ret = "nil"
          /\ DOMAIN contracts = {IP(h) : h \in hosts}
          /\ Cardinality(DOMAIN contracts) = Cardinality(hosts)
          /\ \A h \in hosts : /\ contracts[IP(h)] = resp[h]
                              /\ resp[h] = fileContract(h)
                              /\ fcCalls[h] = 1

C1_Witness ==
    /\ dpc = "ret"
    /\ ret = "nil"
    /\ StreamOk
    /\ FailedHosts = {}
    /\ Cardinality(hosts) >= 2
    /\ chunksUploaded >= 2
    /\ DOMAIN contracts = {IP(h) : h \in hosts}

\* C2: at the step by which file.upload returns, f.bytesUploaded is the total
\* length of the pieces whose addPiece call succeeded.
C2_BytesOnReturn ==
    [][(dpc # "ret" /\ dpc' = "ret") => bytesUploaded' = DeliveredBytes(hosts)']_vars

\* C3: if exactly one of N >= 2 hosts fails, on its first addPiece, and the
\* stream is read and encoded without error, file.upload is never blocked,
\* returns nil with N contracts in the map, the failing host's included, and
\* every piece but the one that host took is stored by one of the other hosts.
C3_OneHostFailsFirst ==
    /\ (Uploading /\ Cardinality(hosts) >= 2 /\ Cardinality(FailedHosts) <= 1)
          => ENABLED Next
    /\ \A f \in hosts :
          (/\ dpc = "ret"
           /\ StreamOk
           /\ Cardinality(hosts) >= 2
           /\ FailedHosts = {f}
           /\ stored[f] = {}) =>
              /\ ret = "nil"
              /\ Cardinality(DOMAIN contracts) = Cardinality(hosts)
              /\ IP(f) \in DOMAIN contracts
              /\ contracts[IP(f)].pieces = {}
              /\ Cardinality(failedOn[f]) = 1
              /\ \A p \in AllPieces \ failedOn[f] :
                    \E h \in hosts \ {f} : p \in contracts[IP(h)].pieces

C3_Witness ==
    \E f \in hosts :
        /\ dpc = "ret"
        /\ ret = "nil"
        /\ StreamOk
        /\ Cardinality(hosts) >= 3
        /\ FailedHosts = {f}
        /\ stored[f] = {}
        /\ chunksUploaded >= 2
        /\ \A h \in hosts \ {f} : stored[h] # {}

\* C4: whichever hosts fail, file.upload is never blocked: until it returns,
\* some goroutine of the upload can take a step.
C4_DispatcherNeverBlocked ==
    Uploading => ENABLED Next

\* C5: every worker that has left its loop, by exhaustion or by a failed
\* addPiece, delivers its contract to the orchestrator.
C5_EveryWorkerDelivers ==
    \A h \in Candidates : (wpc[h] = "send") ~> (wpc[h] = "done")

\* C6: when file.upload returns an error, every spawned worker has delivered
\* its contract.
C6_DrainBeforeAbort ==
    (dpc = "ret" /\ ret # "nil") => \A h \in hosts : wpc[h] = "done"

\* the pieces handed to workers so far
HandedOff ==
    UNION {stored[h] \cup failedOn[h] \cup
           (IF wpc[h] = "add" THEN {PieceId(req[h])} ELSE {}) : h \in hosts}

\* C7: if a read fails with an error other than end-of-stream after some chunks
\* were dispatched, file.upload returns the error, no piece of a later chunk is
\* ever dispatched, and when Renter.Upload returns it reports failure, the file
\* is neither in r.files nor in the saved table, and no .sia file was written.
C7_ReadErrorAborts ==
    /\ readFailAt # NoFail => (ret # "nil" /\ ~closed /\ ~siaSaved)
    /\ (dpc = "ret" /\ ret = "EIO" /\ Len(reads) >= 1) =>
          /\ Len(reads) = readFailAt \div chunkSize
          /\ \A p \in HandedOff : p[1] < readFailAt \div chunkSize
          /\ upc \in {"upload", "done"}
          /\ upc = "upload" => ENABLED UploadFailed
          /\ upc = "done" =>
                /\ uploadErr = "failed to upload any file pieces"
                /\ Nickname \notin DOMAIN files
                /\ Nickname \notin DOMAIN saved
                /\ ~siaSaved

C7_Witness ==
    /\ upc = "done"
    /\ ret = "EIO"
    /\ Len(reads) >= 1
    /\ HandedOff # {}
    /\ everInserted

NotEnoughHosts == "not enough hosts to support upload"

\* C8: if fewer hosts were constructed than erasureCode.MinPieces(), Upload
\* fails with the not-enough-hosts error, and it does so before any byte of
\* the stream is read, before any addPiece call and before the file is put
\* into r.files.
C8_NotEnoughHosts ==
    /\ upc \in {"add", "upload"} => Cardinality(hosts) >= MinPieces
    /\ (upc = "done" /\ Cardinality(hosts) < MinPieces
            /\ uploadErr \notin {"open failed", "setup failed",
                                 "file with that nickname already exists"}) =>
          uploadErr = NotEnoughHosts
    /\ uploadErr = NotEnoughHosts =>
          /\ Cardinality(hosts) < MinPieces
          /\ pos = 0
          /\ reads = <<>>
          /\ dpc = "idle"
          /\ \A h \in Candidates : /\ wpc[h] = "none"
                                   /\ req[h] = NoPiece
                                   /\ stored[h] = {}
                                   /\ failedOn[h] = {}
          /\ ~everInserted
          /\ Nickname \notin DOMAIN files
          /\ Nickname \notin DOMAIN saved

C8_Witness ==
    /\ upc = "done"
    /\ uploadErr = NotEnoughHosts
    /\ streamLen > 0

RECURSIVE Cat(_)
\* the chunks read so far, without their padding, one after the other
Cat(rs) ==
    IF rs = <<>> THEN <<>>
    ELSE Cat(SubSeq(rs, 1, Len(rs) - 1)) \o SubSeq(rs[Len(rs)].buf, 1, rs[Len(rs)].n)

\* the dispatcher has left its chunk loop at the end of the stream
ReadToEnd == dpc \in {"close", "collect"} \/ ret = "nil"

\* C9: chunk k (from 0) covers the stream bytes [k*C, min((k+1)*C, L)), a short
\* final chunk is accepted, and once the loop ends at the end of the stream
\* ceil(L / C) chunks were read and their concatenation is the stream.
C9_Chunking ==
    /\ \A k \in 1 .. Len(reads) :
          /\ reads[k].off = (k - 1) * chunkSize
          /\ reads[k].n = Min(chunkSize, streamLen - (k - 1) * chunkSize)
          /\ reads[k].n >= 1
          /\ Len(reads[k].buf) = chunkSize
          /\ \A b \in 1 .. reads[k].n : reads[k].buf[b] = stream[(k - 1) * chunkSize + b]
    /\ Cat(reads) = SubSeq(stream, 1, pos)
    /\ ReadToEnd =>
          /\ Len(reads) = NumChunks(streamLen)
          /\ streamLen = 0 => reads = <<>>
          /\ Cat(reads) = stream
          /\ chunksUploaded = NumChunks(streamLen)

C9_Witness ==
    /\ ReadToEnd
    /\ Len(reads) >= 2
    /\ reads[Len(reads)].n < chunkSize

\* C10 as stated: with as many healthy hosts as pieces per chunk, every host
\* receives exactly one piece of each of the K chunks.
C10_OnePiecePerChunkPerHost ==
    (dpc = "ret" /\ ret = "nil" /\ FailedHosts = {}
        /\ Cardinality(hosts) = NumPieces) =>
          \A h \in hosts :
              /\ Cardinality(stored[h]) = NumChunks(streamLen)
              /\ \A c \in 0 .. NumChunks(streamLen) - 1 :
                    Cardinality({p \in stored[h] : p[1] = c}) = 1

\* C10 amended: with as many healthy hosts as pieces per chunk, the hosts
\* together receive K * NumPieces pieces, every piece of every chunk going to
\* exactly one host; which host is decided by which worker is idle.
C10_EveryPieceOnOneHost ==
    (dpc = "ret" /\ ret = "nil" /\ FailedHosts = {}
        /\ Cardinality(hosts) = NumPieces) =>
          /\ UNION {stored[h] : h \in hosts} = AllPieces
          /\ \A g, h \in hosts : g # h => stored[g] \cap stored[h] = {}
          /\ CountStored(hosts) = NumChunks(streamLen) * NumPieces
          /\ \A h \in hosts : contracts[IP(h)].pieces = stored[h]

C10_Witness ==
    /\ dpc = "ret"
    /\ ret = "nil"
    /\ FailedHosts = {}
    /\ Cardinality(hosts) = NumPieces
    /\ NumChunks(streamLen) = 2
    /\ \E h \in hosts : \E c \in 0 .. 1 : Cardinality({p \in stored[h] : p[1] = c}) >= 2
    /\ \E h \in hosts : Cardinality(stored[h]) # 2

C12_CountersLag ==
    /\ [](/\ bytesUploaded <= SumLen(HandedOff)
          /\ chunksUploaded <= Len(reads))
    /\ [][/\ bytesUploaded' >= bytesUploaded
          /\ chunksUploaded' >= chunksUploaded]_vars

C12_Witness ==
    /\ bytesUploaded > 0
    /\ bytesUploaded < SumLen(HandedOff)
    /\ chunksUploaded >= 1
    /\ chunksUploaded < Len(reads)

\* the workers that are inside an addPiece call of host session s
InAddPiece(s) == {w \in hosts : session(w) = s /\ wpc[w] = "add"}

\* the workers of host session s that are still in their consume loop
InLoop(s) == {w \in hosts : session(w) = s /\ wpc[w] \in {"recv", "add", "count"}}

\* C13: the calls on one host session are sequential: at most one addPiece call
\* of a session is in progress, and fileContract() is called once, when no
\* addPiece of the session is in progress and none can follow (the session's
\* worker has left its loop).
C13_SessionSequential ==
    \A s \in Candidates :
        /\ Cardinality(InAddPiece(s)) <= 1
        /\ fcCalls[s] <= 1
        /\ fcCalls[s] >= 1 => InLoop(s) = {}

C13_Witness ==
    /\ \E s \in hosts : fcCalls[s] = 1 /\ stored[s] # {} /\ failedOn[s] # {}
    /\ \E s, t \in hosts : s # t /\ InAddPiece(s) # {} /\ InAddPiece(t) # {}

\* C14: a host has at most one failed addPiece and it is its last: once it has
\* failed, the worker is out of its loop, the failed piece is the last piece it
\* took, and it takes no piece and makes no addPiece call afterwards.
C14_FailureIsLast ==
    \A h \in Candidates :
        /\ Cardinality(failedOn[h]) <= 1
        /\ failedOn[h] # {} =>
              /\ wpc[h] \in {"send", "done"}
              /\ failedOn[h] = {PieceId(req[h])}
              /\ PieceId(req[h]) \notin stored[h]
              /\ ~ENABLED Handoff(h)
              /\ ~ENABLED AddPieceOk(h)
              /\ ~ENABLED AddPieceFail(h)

C14_Witness ==
    /\ dpc = "ret"
    /\ ret = "nil"
    /\ \E h \in hosts : failedOn[h] # {} /\ stored[h] # {}
    /\ \E h \in hosts : failedOn[h] = {} /\ stored[h] # {}

\* the pieces worker h has taken from reqChan
Taken(h) ==
    stored[h] \cup failedOn[h] \cup (IF wpc[h] = "add" THEN {PieceId(req[h])} ELSE {})

RECURSIVE CountTaken(_)
CountTaken(hs) ==
    IF hs = {} THEN 0
    ELSE LET h == CHOOSE x \in hs : TRUE
         IN  Cardinality(Taken(h)) + CountTaken(hs \ {h})

\* the number of sends on reqChan the dispatcher has completed
SentCount == i * NumPieces + (IF dpc \in {"send", "inc"} THEN j ELSE 0)

\* C15: every piece sent is taken by exactly one worker and tried by addPiece
\* once: a piece is never both failed and stored, never with two hosts, and
\* when file.upload returns nil the pieces stored number chunks * pieces per
\* chunk less the hosts that failed.
C15_NoRetry ==
    /\ \A g, h \in hosts : g # h => Taken(g) \cap Taken(h) = {}
    /\ \A h \in hosts :
          /\ stored[h] \cap failedOn[h] = {}
          /\ wpc[h] = "add" => PieceId(req[h]) \notin stored[h] \cup failedOn[h]
    /\ CountTaken(hosts) = SentCount
    /\ HandedOff \subseteq AllPieces
    /\ (dpc = "ret" /\ ret = "nil") =>
          /\ HandedOff = AllPieces
          /\ CountStored(hosts) =
                NumChunks(streamLen) * NumPieces - Cardinality(FailedHosts)

C15_Witness ==
    /\ dpc = "ret"
    /\ ret = "nil"
    /\ Cardinality(FailedHosts) = 2
    /\ CountStored(hosts) = 2

\* the pieces of chunk c handed to workers so far
HandedOfChunk(c) == {p \in HandedOff : p[1] = c}

\* C16: pieces are handed to workers in (chunk index, piece index) order, each
\* tagged with its own indices and carrying its own data; f.chunksUploaded is
\* incremented for a chunk only after all its pieces were taken, and no piece
\* of the next chunk is handed off before that increment.
C16_HandoffOrder ==
    /\ [](\A p \in HandedOff : p[1] <= chunksUploaded /\ p[2] \in 0 .. NumPieces - 1)
    /\ [][/\ \A h \in hosts :
                (wpc[h] = "recv" /\ wpc'[h] = "add") =>
                    /\ req'[h].chunkIndex = chunksUploaded
                    /\ req'[h].pieceIndex = Cardinality(HandedOfChunk(chunksUploaded))
                    /\ req'[h].pieceIndex \in 0 .. NumPieces - 1
                    /\ req'[h].data = PieceData(req'[h].chunkIndex, req'[h].pieceIndex)
                    /\ chunksUploaded' = chunksUploaded
          /\ chunksUploaded' # chunksUploaded =>
                /\ chunksUploaded' = chunksUploaded + 1
                /\ Cardinality(HandedOfChunk(chunksUploaded)) = NumPieces]_vars

C16_Witness ==
    /\ chunksUploaded = 2
    /\ HandedOff = AllPieces
    /\ Cardinality(HandedOff) = 2 * NumPieces

\* C17: reqChan is closed at most once, only when the stream was read and
\* encoded to its end and every piece of every chunk was taken by a worker;
\* nothing is sent on it after the close, and a worker none of whose addPiece
\* calls failed leaves its loop, and so delivers its contract, only after it.
C17_CloseOnceAtEnd ==
    /\ [](/\ closed =>
                /\ dpc \in {"collect", "ret"}
                /\ ret \in {"none", "nil"}
                /\ StreamOk
                /\ HandedOff = AllPieces
                /\ SentCount = Cardinality(AllPieces)
          /\ \A h \in hosts :
                (wpc[h] \in {"send", "done"} /\ failedOn[h] = {}) => closed
          /\ ret = "nil" => closed)
    /\ [][closed =>
            /\ closed'
            /\ dpc' # "close"
            /\ SentCount' = SentCount
            /\ \A h \in hosts : wpc[h] = "recv" => wpc'[h] # "add"]_vars

C17_Witness ==
    /\ closed
    /\ NumChunks(streamLen) = 2
    /\ \E h \in hosts : wpc[h] = "done" /\ failedOn[h] = {} /\ stored[h] # {}
    /\ \E h \in hosts : wpc[h] = "add"

RECURSIVE CountFailed(_)
CountFailed(hs) ==
    IF hs = {} THEN 0
    ELSE LET h == CHOOSE x \in hs : TRUE
         IN  Cardinality(failedOn[h]) + CountFailed(hs \ {h})

\* the pieces sent on reqChan whose addPiece call has not returned
InFlight == SentCount - CountStored(hosts) - CountFailed(hosts)

\* C18: reqChan is a rendezvous: the pieces sent whose addPiece has not returned
\* are those the workers hold, at most one per worker and so at most one per
\* host, and a chunk is read only when every piece of the chunks before it was
\* taken by a worker.
C18_Rendezvous ==
    /\ InFlight = Cardinality({h \in hosts : wpc[h] = "add"})
    /\ InFlight <= Cardinality(hosts)
    /\ \A c \in 0 .. Len(reads) - 2 : Cardinality(HandedOfChunk(c)) = NumPieces
    /\ dpc \in {"read", "encode"} => SentCount = Cardinality(HandedOff)
    /\ dpc = "read" =>
          \A c \in 0 .. Len(reads) - 1 : Cardinality(HandedOfChunk(c)) = NumPieces

C18_Witness ==
    /\ dpc = "send"
    /\ i = 1
    /\ InFlight = Cardinality(hosts)
    /\ Cardinality(hosts) >= 2

\* file.upload has returned nil and every worker has ended
UploadSucceeded ==
    /\ dpc = "ret"
    /\ ret = "nil"
    /\ \A g \in hosts : wpc[g] = "done"

\* C19: if the stream is read and encoded without error and some host never
\* fails, then, every goroutine being scheduled and every addPiece call
\* returning, file.upload returns nil with all workers ended, whichever other
\* hosts fail and whenever.
C19_Terminates ==
    \A h \in Candidates :
        [](failedOn[h] = {}) =>
            []((Uploading /\ StreamOk /\ h \in hosts) => <>UploadSucceeded)

C19_Witness ==
    /\ UploadSucceeded
    /\ StreamOk
    /\ NumChunks(streamLen) = 2
    /\ Cardinality(hosts) = 3
    /\ Cardinality(FailedHosts) = 2

\* the other call has put its file object into r.files
OtherInserted == opc \in {"upload", "committed", "failed"}

=============================================================================
